---- MODULE Spec2Model ----
(***************************************************************************)
(* Model of the chat backend's service layer:                              *)
(*   chat/services/message_services.py  (send / edit / delete a message)   *)
(*   chat/services/user_services.py     (friend requests, notifications,   *)
(*                                       profiles)                         *)
(*   chat/models.py                     (the rows the services store)      *)
(*                                                                         *)
(* Every service call is one action (each call runs in the caller's thread *)
(* against the store).  The variable `last` records the call that was made *)
(* and how it ended: the exception it raised ("None" when it returned) and *)
(* the value it returned.  `before` is the message table as it was when    *)
(* that call started, and `fr_before`, `notif_before`, `prof_before` the   *)
(* friend request, notification and profile tables.                        *)
(*                                                                         *)
(* Where calls of different callers overlap, a call is a process of        *)
(* `procs` and takes one step per access to the store.                     *)
(*                                                                         *)
(* message_services.py carries repeated fragments of its own statements    *)
(* (lines 97-100, 126-129, 148-151, 162-165) that belong to no statement;  *)
(* the model follows the statements that are well formed, in order.        *)
(***************************************************************************)
EXTENDS Integers, Sequences, FiniteSets, TLC

VARIABLES
    chat_creator,     \* Chat.creator of the chat
    chat_members,     \* Chat.members of the chat
    messages,         \* Message table: pk -> row
    next_id,          \* next primary key of the Message table
    before,           \* Message table when the last call started
    friend_requests,  \* FriendRequest table: set of rows
    fr_next_id,       \* next primary key of the FriendRequest table
    fr_before,        \* FriendRequest table when the last call started
    notifications,    \* Notification table: pk -> row
    notif_next_id,    \* next primary key of the Notification table
    notif_before,     \* Notification table when the last call started
    profiles,         \* Profile table: user -> row (one-to-one with User)
    prof_before,      \* Profile table when the last call started
    procs,            \* overlapping calls: caller -> position and outcome
    last              \* the last call: operation, arguments, outcome

vars == <<chat_creator, chat_members, messages, next_id, before,
          friend_requests, fr_next_id, fr_before,
          notifications, notif_next_id, notif_before,
          profiles, prof_before, procs, last>>

msgVars == <<messages, next_id, before>>
chatVars == <<chat_creator, chat_members>>
friendVars == <<friend_requests, fr_next_id, fr_before>>
notifVars == <<notifications, notif_next_id, notif_before>>
profileVars == <<profiles, prof_before>>

-----------------------------------------------------------------------------
(* Bounds *)

MaxMsgs == 2            \* Message rows ever created
MaxLen == 2             \* longest content a caller passes
MaxFriendRequests == 3  \* FriendRequest rows ever created
MaxNotifs == 2          \* Notification rows ever created

-----------------------------------------------------------------------------
(* Values *)

None == "None"
Users == {"u1", "u2", "u3"}
Actors == Users \cup {None}
StaffUsers == {"u3"}        \* the users whose is_staff flag is set

Chars == {" ", "a"}
NoneContent == <<None>>     \* a caller passing content=None
Texts == UNION {[1..n -> Chars] : n \in 0..MaxLen}
Contents == Texts \cup {NoneContent}

MsgIds == 1..MaxMsgs

\* the callers whose calls overlap
Procs == {"p1", "p2"}
IdleProc ==
    [pc |-> "idle", op |-> None, args |-> <<>>, exc |-> None, ret |-> <<>>,
     note |-> None]

\* message_or_id: an int id, or a Message object the caller holds (known by
\* its pk; the row it was loaded from may have been deleted since)
ById(i) == [kind |-> "id", pk |-> i]
ByValue(i) == [kind |-> "obj", pk |-> i]

-----------------------------------------------------------------------------
(* str.strip() and `x or ""` *)

RECURSIVE lstrip(_)
lstrip(s) ==
    IF s = <<>> THEN s
    ELSE IF Head(s) = " " THEN lstrip(Tail(s)) ELSE s

RECURSIVE rstrip(_)
rstrip(s) ==
    IF s = <<>> THEN s
    ELSE IF s[Len(s)] = " " THEN rstrip(SubSeq(s, 1, Len(s) - 1)) ELSE s

strip(s) == rstrip(lstrip(s))

OrEmpty(c) == IF c = NoneContent THEN <<>> ELSE c

-----------------------------------------------------------------------------
(* chat/models.py *)

\* fields of Message a constructor keyword may name
MessageFields == {"sender", "content", "timestamp"}

\* Message.full_clean(): content is a TextField without blank=True
MessageFullCleanOk(content) == content # <<>>

Outcome(op, args, exc, ret) == [op |-> op, args |-> args, exc |-> exc, ret |-> ret]

\* User.is_staff
is_staff(u) == u \in StaffUsers

\* Message.objects.create(**kwargs): Model.__init__ rejects a keyword that
\* names no field of the model
CreateKwargsOk(kwargs) == kwargs \subseteq MessageFields

\* the row Message.objects.create stores; timestamp defaults to timezone.now,
\* a clock that advances with every row created
NewMessageRow(sender, content) ==
    [sender |-> sender, content |-> content, timestamp |-> next_id]

-----------------------------------------------------------------------------
(* chat/admin.py: Message is registered with the admin site, whose add form *)
(* stores a row with a sender and a non-blank content.                      *)

AdminAddMessage(sender, content) ==
    /\ next_id <= MaxMsgs
    /\ strip(content) # <<>>
    /\ before' = messages
    /\ messages' = messages @@ (next_id :> NewMessageRow(sender, strip(content)))
    /\ next_id' = next_id + 1
    /\ last' = Outcome("admin_add_message", [sender |-> sender, content |-> content],
                       None, <<next_id>>)
    /\ UNCHANGED <<chatVars, friendVars, notifVars, profileVars, procs>>

-----------------------------------------------------------------------------
(* message_services.py: send_message *)

\* the membership check left out
IsMember_Always(sender) == TRUE

\* line 29 (and again line 33)
IsMember(sender) == sender \in chat_members \/ chat_creator = sender

\* the keywords of Message.objects.create at line 40
SendCreateKwargs == {"sender", "content", "chat"}

\* the exception send_message ends with ("None": it returns the message)
SendExc(sender, content) ==
    IF ~IsMember(sender) THEN "PermissionError"                \* lines 30-36
    ELSE IF ~CreateKwargsOk(SendCreateKwargs) THEN "TypeError" \* line 40
    ELSE IF ~MessageFullCleanOk(strip(OrEmpty(content)))
         THEN "ValidationError"                                \* lines 42-46
    ELSE None

send_message(sender, content) ==
    LET c == strip(OrEmpty(content))       \* line 28
        exc == SendExc(sender, content)
    IN  /\ exc = None => next_id <= MaxMsgs
        /\ before' = messages
        /\ IF exc = None
           THEN /\ messages' = messages @@ (next_id :> NewMessageRow(sender, c))
                /\ next_id' = next_id + 1
                /\ last' = Outcome("send_message",
                                   [sender |-> sender, content |-> content],
                                   None, <<next_id>>)
           ELSE \* a failure inside transaction.atomic() rolls the create back
                /\ UNCHANGED <<messages, next_id>>
                /\ last' = Outcome("send_message",
                                   [sender |-> sender, content |-> content],
                                   exc, <<>>)
        /\ UNCHANGED <<chatVars, friendVars, notifVars, profileVars, procs>>

-----------------------------------------------------------------------------
(* message_services.py: _resolve_message *)

\* <<>> is None; <<pk>> is the Message with that pk
_resolve_message(ref) ==
    IF ref.kind = "obj" THEN <<ref.pk>>                  \* lines 67-68
    ELSE IF ref.pk \in DOMAIN messages THEN <<ref.pk>>   \* line 70
    ELSE <<>>                                            \* lines 71-72

\* Model.delete() on an instance: removes the row with its pk, if any
DeleteRow(pk) == [i \in DOMAIN messages \ {pk} |-> messages[i]]

\* models.py line 39, Notification.message on_delete=CASCADE: the
\* notifications of a deleted message go with it
CascadeNotifications(pk) ==
    [n \in {k \in DOMAIN notifications : notifications[k].message # pk}
        |-> notifications[n]]

-----------------------------------------------------------------------------
(* message_services.py: delete_message *)

\* the exception delete_message ends with ("None": it returns True)
DeleteExc(ref, actor) ==
    IF _resolve_message(ref) = <<>>                        \* line 117
    THEN IF actor = None THEN "AttributeError"             \* line 119: None.is_staff
         ELSE IF ~is_staff(actor)
              \* line 119: getattr(None, "sender_id", None) is None, never the
              \* actor's id
              THEN "PermissionError"                       \* line 125
         ELSE "AttributeError"                             \* line 131: None.delete()
    ELSE None

delete_message(ref, actor) ==
    LET exc == DeleteExc(ref, actor)
        args == [ref |-> ref, actor |-> actor]
    IN  /\ before' = messages
        /\ notif_before' = notifications
        /\ IF exc = None
           THEN /\ messages' = DeleteRow(ref.pk)           \* line 131
                /\ notifications' = CascadeNotifications(ref.pk)
                /\ last' = Outcome("delete_message", args, None, <<TRUE>>)
           ELSE /\ UNCHANGED <<messages, notifications>>
                /\ last' = Outcome("delete_message", args, exc, <<>>)
        /\ UNCHANGED <<next_id, chatVars, friendVars, notif_next_id,
                       profileVars, procs>>

-----------------------------------------------------------------------------
(* message_services.py: edit_message *)

\* names bound at module level (imports, logger, the functions)
ModuleNames == {"logging", "transaction", "IntegrityError", "ObjectDoesNotExist",
                "ValidationError", "User", "Chat", "Message", "logger",
                "get_object_id", "send_message", "get_chat_messages",
                "_resolve_message", "mark_message_as_read", "delete_message",
                "edit_message", "Optional", "List", "Union"}

\* names bound in edit_message: its parameters, and msg_id in the handler
EditLocals == {"message_or_id", "actor", "new_content", "msg_id", "e"}

NameBound(name, locals) == name \in locals \cup ModuleNames

\* the exception edit_message ends with.  `message` is read at line 141 when
\* the actor is given and is not staff (for a staff actor the `or` stops at
\* actor.is_staff), and otherwise at line 155.
EditExc(ref, actor) ==
    IF actor # None /\ ~is_staff(actor) /\ ~NameBound("message", EditLocals)
    THEN "NameError"                                       \* line 141
    ELSE IF ~NameBound("message", EditLocals)
    THEN "NameError"                                       \* line 155
    ELSE None

\* Every path ends at a read of the unbound name `message`, so no statement
\* of lines 156-161 (full_clean, save) runs and no row is written.
edit_message(ref, actor, new_content) ==
    LET exc == EditExc(ref, actor)
        args == [ref |-> ref, actor |-> actor, new_content |-> new_content]
    IN  /\ before' = messages
        /\ UNCHANGED <<messages, next_id>>
        /\ last' = Outcome("edit_message", args, exc, <<>>)
        /\ UNCHANGED <<chatVars, friendVars, notifVars, profileVars, procs>>

-----------------------------------------------------------------------------
(* message_services.py: mark_message_as_read *)

\* names bound in mark_message_as_read
MarkReadLocals == {"message_or_id", "reader", "message", "is_member"}

\* the exception mark_message_as_read ends with ("None": it returns)
MarkReadExc(ref, reader) ==
    IF _resolve_message(ref) = <<>> THEN None                 \* lines 83-85
    ELSE IF reader # None /\ ~NameBound("chat_obj", MarkReadLocals)
    THEN "NameError"                                          \* line 89
    ELSE IF reader # None /\ ~IsMember(reader)
    THEN "PermissionError"                                    \* lines 90-96
    ELSE None

\* lines 102-108 only log (Message has no is_read field); nothing is stored
mark_message_as_read(ref, reader) ==
    LET exc == MarkReadExc(ref, reader)
        args == [ref |-> ref, reader |-> reader]
    IN  /\ before' = messages
        /\ notif_before' = notifications
        /\ last' = Outcome("mark_message_as_read", args, exc,
                           IF exc = None THEN _resolve_message(ref) ELSE <<>>)
        /\ UNCHANGED <<messages, next_id, notifications, notif_next_id>>
        /\ UNCHANGED <<chatVars, friendVars, profileVars, procs>>

-----------------------------------------------------------------------------
(* message_services.py: get_chat_messages *)

\* the names a Message query may filter or order by
MessageLookups == MessageFields \cup {"id", "pk"}

\* the exception get_chat_messages ends with: the query names fields that
\* Message does not have
GetChatMessagesExc ==
    IF "chat" \notin MessageLookups THEN "FieldError"            \* line 60
    ELSE IF "created_at" \notin MessageLookups THEN "FieldError" \* line 61
    ELSE None

\* limit and offset are used as given (line 62), with no check before the
\* query is built; the slice of line 62 is not reached
get_chat_messages(limit, offset, newest_first) ==
    LET args == [limit |-> limit, offset |-> offset, newest_first |-> newest_first]
    IN  /\ before' = messages
        /\ last' = Outcome("get_chat_messages", args, GetChatMessagesExc, <<>>)
        /\ UNCHANGED <<messages, next_id>>
        /\ UNCHANGED <<chatVars, friendVars, notifVars, profileVars, procs>>

\* the limits and offsets tried, negative ones among them
PageArgs == (0 - 1)..MaxMsgs

-----------------------------------------------------------------------------
(* Message service: specification *)

\* what a caller may pass as message_or_id: any id, or an object loaded from
\* a row that existed at some time
MessageRefs == {ById(i) : i \in MsgIds} \cup {ByValue(i) : i \in 1..(next_id - 1)}

Init ==
    /\ chat_creator = "u1"
    /\ chat_members \in SUBSET Users
    /\ messages = <<>>
    /\ next_id = 1
    /\ before = <<>>
    /\ friend_requests = {}
    /\ fr_next_id = 1
    /\ fr_before = {}
    /\ notifications = <<>>
    /\ notif_next_id = 1
    /\ notif_before = <<>>
    /\ profiles = <<>>
    /\ prof_before = <<>>
    /\ procs = [p \in Procs |-> IdleProc]
    /\ last = Outcome("init", <<>>, None, <<>>)

SendStep == \E u \in Users, c \in Contents : send_message(u, c)
EditStep == \E r \in MessageRefs, a \in Actors, c \in Contents : edit_message(r, a, c)
DeleteStep == \E r \in MessageRefs, a \in Actors : delete_message(r, a)
AdminAddStep == \E u \in Users, c \in Texts : AdminAddMessage(u, c)
MarkMessageStep == \E r \in MessageRefs, a \in Actors : mark_message_as_read(r, a)
GetChatMessagesStep ==
    \E l \in PageArgs, o \in PageArgs, n \in BOOLEAN : get_chat_messages(l, o, n)

Next ==
    \/ SendStep
    \/ EditStep
    \/ DeleteStep
    \/ AdminAddStep
    \/ MarkMessageStep
    \/ GetChatMessagesStep

Spec == Init /\ [][Next]_vars


-----------------------------------------------------------------------------
(* user_services.py: send_friend_request *)

\* the rows of the ordered pair (from_user, to_user)
PairRows(rows, from_user, to_user) ==
    {r \in rows : r.from_user = from_user /\ r.to_user = to_user}

\* FriendRequest without unique_together
UniqueTogetherOk_NoConstraint(from_user, to_user) == TRUE

\* models.py, FriendRequest.Meta.unique_together: an insert of a pair that is
\* already stored is refused by the store (IntegrityError)
UniqueTogetherOk(from_user, to_user) ==
    PairRows(friend_requests, from_user, to_user) = {}

NewFriendRequestRow(from_user, to_user) ==
    [id |-> fr_next_id, from_user |-> from_user, to_user |-> to_user,
     created_at |-> fr_next_id]

\* the check of line 76 left out
IsSelfRequest_Never(from_user, to_user) == FALSE

\* line 76: `from_user == to_user` compares the users' primary keys
IsSelfRequest(from_user, to_user) == from_user = to_user

\* objects.create in place of objects.get_or_create
GetOrCreate_AlwaysCreate(from_user, to_user) == "create"

\* FriendRequest.objects.get_or_create(from_user=, to_user=) at line 82:
\* "get" when the lookup finds the row, "create" when it finds none
GetOrCreate(from_user, to_user) ==
    IF PairRows(friend_requests, from_user, to_user) # {} THEN "get" ELSE "create"

\* the exception send_friend_request ends with ("None": it returns the row)
FriendRequestExc(from_user, to_user) ==
    IF IsSelfRequest(from_user, to_user) THEN "ValueError"       \* lines 76-77
    ELSE IF GetOrCreate(from_user, to_user) = "get"
         THEN IF Cardinality(PairRows(friend_requests, from_user, to_user)) = 1
              THEN None
              ELSE "MultipleObjectsReturned"
    ELSE IF ~UniqueTogetherOk(from_user, to_user)
         THEN "IntegrityError"                                   \* lines 90-92
    ELSE None

send_friend_request(from_user, to_user) ==
    LET exc == FriendRequestExc(from_user, to_user)
        how == GetOrCreate(from_user, to_user)
        args == [from_user |-> from_user, to_user |-> to_user]
    IN  /\ (exc = None /\ how = "create") => fr_next_id <= MaxFriendRequests
        /\ fr_before' = friend_requests
        /\ IF exc # None
           THEN /\ UNCHANGED <<friend_requests, fr_next_id>>
                /\ last' = Outcome("send_friend_request", args, exc, <<>>)
           ELSE IF how = "get"
           THEN /\ UNCHANGED <<friend_requests, fr_next_id>>
                /\ last' = Outcome("send_friend_request", args, None,
                       <<(CHOOSE r \in PairRows(friend_requests, from_user, to_user) : TRUE).id>>)
           ELSE /\ friend_requests' =
                       friend_requests \cup {NewFriendRequestRow(from_user, to_user)}
                /\ fr_next_id' = fr_next_id + 1
                /\ last' = Outcome("send_friend_request", args, None, <<fr_next_id>>)
        /\ UNCHANGED <<chatVars, msgVars, notifVars, profileVars, procs>>

-----------------------------------------------------------------------------
(* user_services.py: get_friends *)

\* attributes of the FriendRequest model (models.py lines 47-49, and the pk)
FriendRequestAttrs == {"id", "pk", "from_user", "to_user", "created_at"}

\* lines 104-108: hasattr(FriendRequest, "accepted"), then "is_accepted"
AcceptedField ==
    IF "accepted" \in FriendRequestAttrs THEN "accepted"
    ELSE IF "is_accepted" \in FriendRequestAttrs THEN "is_accepted"
    ELSE None

\* everyone the user has sent a request to
GetFriends_SentOnly(user) ==
    {r.to_user : r \in {x \in friend_requests : x.from_user = user}}

\* the users get_friends returns (a list in no stated order: a set here)
GetFriends(user) ==
    IF AcceptedField # None
    THEN \* lines 110-114
         LET sent == {r.to_user : r \in {x \in friend_requests :
                          x.from_user = user /\ x[AcceptedField]}}
             received == {r.from_user : r \in {x \in friend_requests :
                          x.to_user = user /\ x[AcceptedField]}}
         IN  {u \in Users : u \in sent \cup received}
    ELSE \* lines 117-119
         LET sent_to_ids ==
                 {r.to_user : r \in {x \in friend_requests : x.from_user = user}}
             mutual_ids ==
                 {r.from_user : r \in {x \in friend_requests :
                      x.from_user \in sent_to_ids /\ x.to_user = user}}
         IN  {u \in Users : u \in mutual_ids}

get_friends(user) ==
    /\ fr_before' = friend_requests
    /\ last' = Outcome("get_friends", [user |-> user], None, <<GetFriends(user)>>)
    /\ UNCHANGED <<friend_requests, fr_next_id>>
    /\ UNCHANGED <<chatVars, msgVars, notifVars, profileVars, procs>>

-----------------------------------------------------------------------------
(* Friend service: specification *)

FriendRequestStep == \E a \in Users, b \in Users : send_friend_request(a, b)
GetFriendsStep == \E u \in Users : get_friends(u)

FriendNext ==
    \/ FriendRequestStep
    \/ GetFriendsStep

FriendSpec == Init /\ [][FriendNext]_vars


-----------------------------------------------------------------------------
(* Properties of the message service (checked under Spec)                    *)

Trimmed(c) == strip(OrEmpty(c))

\* the message a call's message_or_id named existed when the call started
RefExisted == last.args.ref.pk \in DOMAIN before

\* C1: send_message(U, non-empty content, C) succeeds and stores exactly one
\* new message with sender U iff U is a member or the creator of C; otherwise
\* it fails with PermissionDenied and stores no message.
C1_SendIffMember ==
    (last.op = "send_message" /\ Trimmed(last.args.content) # <<>>) =>
        IF IsMember(last.args.sender)
        THEN /\ last.exc = None
             /\ \E i \in DOMAIN messages \ DOMAIN before :
                    /\ DOMAIN messages = DOMAIN before \cup {i}
                    /\ messages[i].sender = last.args.sender
                    /\ \A j \in DOMAIN before : messages[j] = before[j]
        ELSE /\ last.exc = "PermissionError"
             /\ messages = before

\* C2: send_message with content that is empty after trimming fails with
\* InvalidArgument (ValueError), and after any failed send the stored messages
\* are the ones stored before the call.
C2_EmptySendRejected ==
    /\ (last.op = "send_message" /\ Trimmed(last.args.content) = <<>>) =>
           last.exc = "ValueError"
    /\ (last.op = "send_message" /\ last.exc # None) => messages = before

\* C3: edit_message by an actor who is neither staff nor the sender of the
\* message fails with PermissionDenied and leaves the stored content unchanged.
C3_EditDeniedForOthers ==
    (/\ last.op = "edit_message"
     /\ RefExisted
     /\ last.args.actor \in Users
     /\ ~is_staff(last.args.actor)
     /\ before[last.args.ref.pk].sender # last.args.actor) =>
        /\ last.exc = "PermissionError"
        /\ messages = before

\* C4: edit_message of an existing message with content that is empty after
\* trimming fails with InvalidArgument (ValueError) for every actor and leaves
\* the stored content unchanged.
C4_EmptyEditRejected ==
    (/\ last.op = "edit_message"
     /\ RefExisted
     /\ Trimmed(last.args.new_content) = <<>>) =>
        /\ last.exc = "ValueError"
        /\ messages = before

\* C5: edit_message of an existing message by its sender or by a staff user,
\* with non-empty content, returns the message, and the returned and stored
\* message have the trimmed new content and the sender and timestamp they had.
C5_EditStoresTrimmedContent ==
    (/\ last.op = "edit_message"
     /\ RefExisted
     /\ last.args.actor \in Users
     /\ (is_staff(last.args.actor)
            \/ before[last.args.ref.pk].sender = last.args.actor)
     /\ Trimmed(last.args.new_content) # <<>>) =>
        /\ last.exc = None
        /\ last.ret = <<last.args.ref.pk>>
        /\ last.args.ref.pk \in DOMAIN messages
        /\ messages[last.args.ref.pk] =
               [before[last.args.ref.pk] EXCEPT
                    !.content = Trimmed(last.args.new_content)]

\* the exceptions that say "no such row"
NotFoundErrors == {"ObjectDoesNotExist", "DoesNotExist"}

\* C6: edit_message with an id that resolves to no stored message fails with
\* NotFound and changes no stored message.
C6_EditUnknownIdNotFound ==
    (/\ last.op = "edit_message"
     /\ last.args.ref.kind = "id"
     /\ ~RefExisted) =>
        /\ last.exc \in NotFoundErrors
        /\ messages = before

\* C7: for an existing message M sent by S, delete_message(M, S) and
\* delete_message(M, staff user) remove M and return true, and
\* delete_message(M, other non-staff user) fails with PermissionDenied and M
\* stays stored; authorization is skipped only when the actor is omitted.
C7_DeleteAuthorization ==
    (last.op = "delete_message" /\ RefExisted) =>
        IF \/ last.args.actor = None
           \/ is_staff(last.args.actor)
           \/ before[last.args.ref.pk].sender = last.args.actor
        THEN /\ last.exc = None
             /\ last.ret = <<TRUE>>
             /\ messages = [i \in DOMAIN before \ {last.args.ref.pk} |-> before[i]]
        ELSE /\ last.exc = "PermissionError"
             /\ messages = before

\* C8: delete_message with an id that resolves to no stored message returns
\* false for every actor, raises nothing, and leaves the store unchanged.
C8_DeleteUnknownIdReturnsFalse ==
    (/\ last.op = "delete_message"
     /\ last.args.ref.kind = "id"
     /\ ~RefExisted) =>
        /\ last.exc = None
        /\ last.ret = <<FALSE>>
        /\ messages = before

\* C14: mark_message_as_read never changes stored state; for an existing
\* message and a reader who is a chat member (or no reader) it returns the
\* message; for a reader who is not a member it fails with PermissionDenied;
\* for an id that is not stored it returns no result.
C14_MarkMessageInert ==
    last.op = "mark_message_as_read" =>
        /\ messages = before
        /\ notifications = notif_before
        /\ RefExisted =>
               IF last.args.reader = None \/ IsMember(last.args.reader)
               THEN last.exc = None /\ last.ret = <<last.args.ref.pk>>
               ELSE last.exc = "PermissionError"
        /\ (last.args.ref.kind = "id" /\ ~RefExisted) =>
               (last.exc = None /\ last.ret = <<>>)

\* the stored messages of the chat, oldest first
RECURSIVE OldestFirst(_)
OldestFirst(ids) ==
    IF ids = {} THEN <<>>
    ELSE LET m == CHOOSE x \in ids :
                      \A y \in ids : before[x].timestamp <= before[y].timestamp
         IN  <<m>> \o OldestFirst(ids \ {m})

RECURSIVE Reversed(_)
Reversed(seq) ==
    IF seq = <<>> THEN <<>> ELSE Append(Reversed(Tail(seq)), Head(seq))

\* seq without its first `offset` items, cut to `limit` items
Page(seq, offset, limit) ==
    SubSeq(seq, offset + 1,
           IF offset + limit < Len(seq) THEN offset + limit ELSE Len(seq))

\* C17: get_chat_messages returns the messages of the chat ordered by
\* creation time, ascending by default and descending when newest_first,
\* without the first `offset` of them and at most `limit` of them, and
\* changes no stored state.
C17_ListIsOrderedPage ==
    (/\ last.op = "get_chat_messages"
     /\ last.args.limit >= 0
     /\ last.args.offset >= 0) =>
        /\ last.exc = None
        /\ last.ret =
               Page(IF last.args.newest_first
                    THEN Reversed(OldestFirst(DOMAIN before))
                    ELSE OldestFirst(DOMAIN before),
                    last.args.offset, last.args.limit)
        /\ messages = before

\* C18: get_chat_messages with a negative limit or a negative offset fails
\* with InvalidArgument (ValueError).
C18_NegativePageRejected ==
    (/\ last.op = "get_chat_messages"
     /\ (last.args.limit < 0 \/ last.args.offset < 0)) =>
        last.exc = "ValueError"

-----------------------------------------------------------------------------
(* Properties of the friend service (checked under FriendSpec)               *)

\* C9: for distinct users A and B, a second send_friend_request(A, B) right
\* after a first one raises no error, returns the request the first returned,
\* and leaves exactly one row for the ordered pair (A, B).
C9_FriendRequestIdempotent ==
    [][(/\ last.op = "send_friend_request"
        /\ last.exc = None
        /\ last'.op = "send_friend_request"
        /\ last'.args = last.args) =>
           /\ last'.exc = None
           /\ last'.ret = last.ret
           /\ Cardinality(PairRows(friend_requests', last.args.from_user,
                                   last.args.to_user)) = 1]_vars

\* a send_friend_request that found the pair already stored has returned
C9_Witness ==
    /\ last.op = "send_friend_request"
    /\ last.exc = None
    /\ \E r \in fr_before :
           /\ r.from_user = last.args.from_user
           /\ r.to_user = last.args.to_user
           /\ last.ret = <<r.id>>

\* C10: send_friend_request(A, A) fails with InvalidArgument (ValueError) and
\* creates no row, so no stored FriendRequest has from_user equal to to_user.
C10_NoSelfRequest ==
    /\ (last.op = "send_friend_request"
            /\ last.args.from_user = last.args.to_user) =>
           (last.exc = "ValueError" /\ friend_requests = fr_before)
    /\ \A r \in friend_requests : r.from_user # r.to_user

\* a send_friend_request(A, A) was made while rows are stored
C10_Witness ==
    /\ last.op = "send_friend_request"
    /\ last.args.from_user = last.args.to_user
    /\ last.exc = "ValueError"
    /\ friend_requests # {}


-----------------------------------------------------------------------------
(* chat/admin.py: Notification is registered with the admin site.  The      *)
(* services create no notification; rows come from outside them.            *)

NotifIds == 1..MaxNotifs

NewNotificationRow(user, message, is_read) ==
    [user |-> user, message |-> message, is_read |-> is_read,
     created_at |-> notif_next_id]

AdminAddNotification(user, message, is_read) ==
    /\ notif_next_id <= MaxNotifs
    /\ message \in DOMAIN messages
    /\ notif_before' = notifications
    /\ notifications' =
           notifications @@ (notif_next_id :> NewNotificationRow(user, message, is_read))
    /\ notif_next_id' = notif_next_id + 1
    /\ last' = Outcome("admin_add_notification",
                       [user |-> user, message |-> message, is_read |-> is_read],
                       None, <<notif_next_id>>)
    /\ UNCHANGED <<chatVars, msgVars, friendVars, profileVars, procs>>

-----------------------------------------------------------------------------
(* user_services.py: mark_notification_as_read, delete_notification *)

\* is_read flipped instead of set
MarkedRead_Toggle(notification_id) ==
    [notifications EXCEPT ![notification_id].is_read = ~@]

\* lines 135-137: the table after notif.is_read = True and save; a row that
\* is read already is not written
MarkedRead(notification_id) ==
    IF ~notifications[notification_id].is_read
    THEN [notifications EXCEPT ![notification_id].is_read = TRUE]
    ELSE notifications

mark_notification_as_read(notification_id) ==
    LET args == [notification_id |-> notification_id]
    IN  /\ notif_before' = notifications
        /\ IF notification_id \in DOMAIN notifications           \* line 134
           THEN /\ notifications' = MarkedRead(notification_id)
                /\ last' = Outcome("mark_notification_as_read", args, None,
                                   <<notification_id>>)          \* line 138
           ELSE /\ UNCHANGED notifications                       \* lines 139-141
                /\ last' = Outcome("mark_notification_as_read", args, None, <<>>)
        /\ UNCHANGED <<notif_next_id, chatVars, msgVars, friendVars, profileVars, procs>>

delete_notification(notification_id) ==
    LET args == [notification_id |-> notification_id]
    IN  /\ notif_before' = notifications
        /\ IF notification_id \in DOMAIN notifications           \* line 149
           THEN /\ notifications' =
                       [n \in DOMAIN notifications \ {notification_id}
                           |-> notifications[n]]                 \* line 150
                /\ last' = Outcome("delete_notification", args, None, <<TRUE>>)
           ELSE /\ UNCHANGED notifications                       \* lines 152-154
                /\ last' = Outcome("delete_notification", args, None, <<FALSE>>)
        /\ UNCHANGED <<notif_next_id, chatVars, msgVars, friendVars, profileVars, procs>>

-----------------------------------------------------------------------------
(* Notification service: specification *)

AdminAddNotificationStep ==
    \E u \in Users, m \in MsgIds, r \in BOOLEAN : AdminAddNotification(u, m, r)
MarkNotificationStep == \E n \in NotifIds : mark_notification_as_read(n)
DeleteNotificationStep == \E n \in NotifIds : delete_notification(n)

\* the friend, notification and profile services read nothing of the chat
NoChatInit == Init /\ chat_members = {}

\* the messages the notifications are about: one sender and one text are
\* enough, the notification service reads neither
NotifAddMessageStep == AdminAddMessage("u1", <<"a">>)
NotifDeleteMessageStep == \E i \in MsgIds : delete_message(ById(i), None)

NotifNext ==
    \/ NotifAddMessageStep
    \/ AdminAddNotificationStep
    \/ MarkNotificationStep
    \/ DeleteNotificationStep
    \/ NotifDeleteMessageStep

NotifSpec == NoChatInit /\ [][NotifNext]_vars

\* C13: mark_notification_as_read on a stored notification leaves it stored
\* with is_read true (set from false, or still true on a repeated call) and
\* returns it without an error; on an id that is not stored it returns None
\* and changes nothing.  No service operation sets is_read back to false.
C13_MarkReadIdempotent ==
    /\ last.op = "mark_notification_as_read" =>
           /\ last.exc = None
           /\ IF last.args.notification_id \in DOMAIN notif_before
              THEN /\ last.ret = <<last.args.notification_id>>
                   /\ notifications =
                          [notif_before EXCEPT
                               ![last.args.notification_id].is_read = TRUE]
              ELSE /\ last.ret = <<>>
                   /\ notifications = notif_before
    /\ last.op \in {"mark_notification_as_read", "delete_notification",
                    "delete_message"} =>
           \A n \in DOMAIN notif_before \cap DOMAIN notifications :
               notif_before[n].is_read => notifications[n].is_read

\* an unread notification has been marked read
C13_Witness ==
    /\ last.op = "mark_notification_as_read"
    /\ last.args.notification_id \in DOMAIN notif_before
    /\ ~notif_before[last.args.notification_id].is_read
    /\ notifications[last.args.notification_id].is_read

-----------------------------------------------------------------------------
(* chat/models.py: Profile; user_services.py: get_profile, update_profile   *)

\* values a caller passes (ages as numerals); None is Python's None
AgeValues == {"5", "-1", None}
NegativeAges == {"-1"}
BioValues == {"x", None}
NameValues == {"n"}

\* the keys of `data` tried, and the values each may carry
DataKeys == {"bio", "age", "display_name"}
DataValues(k) ==
    IF k = "age" THEN AgeValues ELSE IF k = "bio" THEN BioValues ELSE NameValues
Datas ==
    UNION {{d \in [K -> AgeValues \cup BioValues \cup NameValues] :
               \A k \in K : d[k] \in DataValues(k)} : K \in SUBSET DataKeys}

\* attributes of a Profile instance (models.py lines 19-22, and the pk)
ProfileAttrs == {"id", "pk", "user", "user_id", "age", "image", "bio"}

\* the columns of a stored row, keyed by its user
ProfileColumns == {"age", "image", "bio"}

\* line 42: the whitelist used when allowed_fields is None
DefaultAllowedFields == {"bio", "age", "image", "display_name"}
AllowedFieldsArgs == {<<>>, <<{"bio"}>>}     \* <<>>: allowed_fields=None
AllowedFields(arg) == IF arg = <<>> THEN DefaultAllowedFields ELSE arg[1]

\* Profile.objects.create(user=user): the row of line 24
DefaultProfileRow == [age |-> None, image |-> None, bio |-> None]

\* models.py line 20: age = IntegerField(), a column that takes no NULL
ProfileInsertOk(row) == row.age # None

\* Profile.full_clean(): age must be an integer (null is refused; IntegerField
\* sets no lower limit); bio and image may be empty
ProfileFullCleanOk(row) == row.age # None

\* chat/admin.py: Profile is registered with the admin site
AdminAddProfile(user, age) ==
    /\ user \notin DOMAIN profiles
    /\ age # None
    /\ prof_before' = profiles
    /\ profiles' = profiles @@ (user :> [DefaultProfileRow EXCEPT !.age = age])
    /\ last' = Outcome("admin_add_profile", [user |-> user, age |-> age], None, <<user>>)
    /\ UNCHANGED <<chatVars, msgVars, friendVars, notifVars, procs>>

\* the exception get_profile ends with
GetProfileExc(user, create_if_missing) ==
    IF user \in DOMAIN profiles THEN None                       \* line 21
    ELSE IF create_if_missing /\ ~ProfileInsertOk(DefaultProfileRow)
    THEN "IntegrityError"                                       \* line 24
    ELSE None

\* the Profile table after get_profile
GetProfileTable(user, create_if_missing) ==
    IF user \notin DOMAIN profiles /\ create_if_missing
          /\ GetProfileExc(user, create_if_missing) = None
    THEN profiles @@ (user :> DefaultProfileRow)                \* line 24
    ELSE profiles

get_profile(user, create_if_missing) ==
    LET exc == GetProfileExc(user, create_if_missing)
        after == GetProfileTable(user, create_if_missing)
        args == [user |-> user, create_if_missing |-> create_if_missing]
    IN  /\ prof_before' = profiles
        /\ profiles' = after
        /\ last' = Outcome("get_profile", args, exc,
                           IF exc = None /\ user \in DOMAIN after
                           THEN <<user>> ELSE <<>>)             \* lines 21, 24, 26
        /\ UNCHANGED <<chatVars, msgVars, friendVars, notifVars, procs>>

\* lines 45-48: the keys of data that are set on the instance
AppliedKeys(data, allowed) ==
    {k \in DOMAIN data : k \in allowed /\ k \in ProfileAttrs}

\* the instance after the setattr calls of line 47
InMemoryProfile(row, data, allowed) ==
    [c \in ProfileColumns |->
        IF c \in AppliedKeys(data, allowed) THEN data[c] ELSE row[c]]

\* line 63: save(update_fields=...) writes the allowed fields the instance
\* has, from the instance, and leaves the other columns of the row
SavedProfile(stored, instance, allowed) ==
    [c \in ProfileColumns |->
        IF c \in allowed /\ c \in ProfileAttrs THEN instance[c] ELSE stored[c]]

\* the exception update_profile ends with
UpdateProfileExc(user, data, allowed) ==
    IF GetProfileExc(user, TRUE) # None
    THEN GetProfileExc(user, TRUE)                              \* line 36
    ELSE IF AppliedKeys(data, allowed) = {} THEN None           \* lines 52-54
    ELSE IF ~ProfileFullCleanOk(
                InMemoryProfile(GetProfileTable(user, TRUE)[user], data, allowed))
    THEN "ValidationError"                                      \* lines 57-61
    ELSE None

update_profile(user, data, allowed_fields) ==
    LET allowed == AllowedFields(allowed_fields)
        exc == UpdateProfileExc(user, data, allowed)
        got == GetProfileTable(user, TRUE)
        args == [user |-> user, data |-> data, allowed_fields |-> allowed_fields]
    IN  /\ prof_before' = profiles
        /\ IF exc = "IntegrityError"
           THEN /\ UNCHANGED profiles
                /\ last' = Outcome("update_profile", args, exc, <<>>)
           ELSE IF exc # None \/ AppliedKeys(data, allowed) = {}
           THEN \* the profile get_profile found or made stays; nothing is saved
                /\ profiles' = got
                /\ last' = Outcome("update_profile", args, exc,
                                   IF exc = None THEN <<user>> ELSE <<>>)
           ELSE /\ profiles' =
                       [got EXCEPT ![user] =
                           SavedProfile(got[user],
                               InMemoryProfile(got[user], data, allowed), allowed)]
                /\ last' = Outcome("update_profile", args, None, <<user>>)
        /\ UNCHANGED <<chatVars, msgVars, friendVars, notifVars, procs>>

-----------------------------------------------------------------------------
(* Profile service: specification *)

AdminAddProfileStep == \E u \in Users, a \in AgeValues : AdminAddProfile(u, a)
GetProfileStep == \E u \in Users, c \in BOOLEAN : get_profile(u, c)
UpdateProfileStep ==
    \E u \in Users, d \in Datas, f \in AllowedFieldsArgs : update_profile(u, d, f)

ProfileNext ==
    \/ AdminAddProfileStep
    \/ GetProfileStep
    \/ UpdateProfileStep

ProfileSpec == NoChatInit /\ [][ProfileNext]_vars

\* the keys of the last update_profile's data that are allowed and real
LastApplied ==
    AppliedKeys(last.args.data, AllowedFields(last.args.allowed_fields))

\* C15: update_profile changes only the profile attributes whose key is in
\* the data and in the allowed fields; other keys are ignored without an
\* error; when no key is applied the call returns the profile and writes
\* nothing.
C15_UpdateOnlyAllowed ==
    last.op = "update_profile" =>
        /\ \A u \in DOMAIN prof_before :
               /\ u \in DOMAIN profiles
               /\ \A c \in ProfileColumns :
                      profiles[u][c] # prof_before[u][c] =>
                          (u = last.args.user /\ c \in LastApplied)
        /\ LastApplied = {} =>
               /\ last.exc = None
               /\ last.ret = <<last.args.user>>
               /\ profiles = prof_before

\* C16: an update_profile with invalid data (a negative age) fails with
\* ValidationError, and when update_profile fails with ValidationError the
\* Profile table is as it was before the call.
C16_InvalidUpdateLeavesStore ==
    last.op = "update_profile" =>
        /\ last.exc = "ValidationError" => profiles = prof_before
        /\ ("age" \in LastApplied /\ last.args.data["age"] \in NegativeAges) =>
               (last.exc = "ValidationError" /\ profiles = prof_before)

\* both requests A -> B and B -> A are stored
Mutual(a, b) ==
    /\ PairRows(friend_requests, a, b) # {}
    /\ PairRows(friend_requests, b, a) # {}

\* C12: with no acceptance flag on FriendRequest, for all users A # B,
\* get_friends(A) contains B iff both requests A -> B and B -> A are stored;
\* so B is in get_friends(A) exactly when A is in get_friends(B).
C12_FriendsAreMutualRequests ==
    /\ \A a \in Users : \A b \in Users \ {a} :
           /\ b \in GetFriends(a) <=> Mutual(a, b)
           /\ b \in GetFriends(a) <=> a \in GetFriends(b)
    /\ last.op = "get_friends" =>
           /\ last.exc = None
           /\ last.ret = <<{b \in Users \ {last.args.user} : Mutual(last.args.user, b)}>>

\* get_friends has returned a friend while a one-way request is stored too
C12_Witness ==
    /\ last.op = "get_friends"
    /\ last.ret # <<{}>>
    /\ \E r \in friend_requests : ~Mutual(r.from_user, r.to_user)

-----------------------------------------------------------------------------
(* user_services.py: send_friend_request, calls that overlap.               *)
(* get_or_create (line 82) is a lookup, then an insert if the lookup found  *)
(* nothing, then, if the insert is refused by unique_together, a second     *)
(* lookup whose row it returns; it re-raises the IntegrityError (lines      *)
(* 90-92) when the second lookup finds nothing.                             *)

ProcDone(p, exc, ret, note) ==
    [procs EXCEPT ![p] = [@ EXCEPT !.pc = "done", !.exc = exc, !.ret = ret,
                                   !.note = note]]

TheRowId(from_user, to_user) ==
    (CHOOSE r \in PairRows(friend_requests, from_user, to_user) : TRUE).id

\* lines 76-77, and the first lookup of get_or_create
FrLookup(p, from_user, to_user) ==
    LET call == [IdleProc EXCEPT !.op = "send_friend_request",
                     !.args = [from_user |-> from_user, to_user |-> to_user]]
    IN  /\ procs[p].pc = "idle"
        /\ procs' = [procs EXCEPT ![p] =
              IF IsSelfRequest(from_user, to_user)
              THEN [call EXCEPT !.pc = "done", !.exc = "ValueError"]
              ELSE IF PairRows(friend_requests, from_user, to_user) # {}
              THEN [call EXCEPT !.pc = "done", !.note = "found",
                                !.ret = <<TheRowId(from_user, to_user)>>]
              ELSE [call EXCEPT !.pc = "create"]]
        /\ UNCHANGED <<chatVars, msgVars, friendVars, notifVars, profileVars, last>>

\* the insert of get_or_create, after a lookup that found nothing
FrCreate(p) ==
    LET a == procs[p].args.from_user
        b == procs[p].args.to_user
    IN  /\ procs[p].pc = "create"
        /\ IF UniqueTogetherOk(a, b)
           THEN /\ fr_next_id <= MaxFriendRequests
                /\ friend_requests' = friend_requests \cup {NewFriendRequestRow(a, b)}
                /\ fr_next_id' = fr_next_id + 1
                /\ procs' = ProcDone(p, None, <<fr_next_id>>, "created")
           ELSE \* IntegrityError, caught inside get_or_create
                /\ UNCHANGED <<friend_requests, fr_next_id>>
                /\ procs' = [procs EXCEPT ![p].pc = "lookup_again"]
        /\ UNCHANGED <<chatVars, msgVars, fr_before, notifVars, profileVars, last>>

\* the second lookup of get_or_create: it returns the row another caller
\* stored
FrLookupAgainSees(p) ==
    /\ procs[p].pc = "lookup_again"
    /\ PairRows(friend_requests, procs[p].args.from_user, procs[p].args.to_user) # {}
    /\ procs' = ProcDone(p, None,
                    <<TheRowId(procs[p].args.from_user, procs[p].args.to_user)>>,
                    "lost")
    /\ UNCHANGED <<chatVars, msgVars, friendVars, notifVars, profileVars, last>>

\* the second lookup reads the snapshot its transaction (line 81) took at the
\* first lookup (a store at REPEATABLE READ): it finds nothing, and the
\* IntegrityError is raised again (lines 90-92)
FrLookupAgainMisses(p) ==
    /\ procs[p].pc = "lookup_again"
    /\ procs' = ProcDone(p, "IntegrityError", <<>>, "lost")
    /\ UNCHANGED <<chatVars, msgVars, friendVars, notifVars, profileVars, last>>

\* the caller has its answer and may call again
ProcReturn(p) ==
    /\ procs[p].pc = "done"
    /\ procs' = [procs EXCEPT ![p] = IdleProc]
    /\ UNCHANGED <<chatVars, msgVars, friendVars, notifVars, profileVars, last>>

FrLookupStep == \E p \in Procs, a \in Users, b \in Users : FrLookup(p, a, b)
FrCreateStep == \E p \in Procs : FrCreate(p)
FrLookupAgainSeesStep == \E p \in Procs : FrLookupAgainSees(p)
FrLookupAgainMissesStep == \E p \in Procs : FrLookupAgainMisses(p)
ProcReturnStep == \E p \in Procs : ProcReturn(p)

ConcFriendNext ==
    \/ FrLookupStep
    \/ FrCreateStep
    \/ FrLookupAgainSeesStep
    \/ FrLookupAgainMissesStep
    \/ ProcReturnStep

ConcFriendSpec == NoChatInit /\ [][ConcFriendNext]_vars

\* C11 as claimed: under any interleaving of send_friend_request calls the
\* store never holds two rows for an ordered pair, and a caller whose lookup
\* found nothing and whose insert lost to the uniqueness constraint fails
\* with ConflictError (IntegrityError).
C11_LoserFailsWithConflict ==
    /\ \A a \in Users, b \in Users :
           Cardinality(PairRows(friend_requests, a, b)) <= 1
    /\ \A p \in Procs :
           (procs[p].pc = "done" /\ procs[p].note = "lost") =>
               procs[p].exc = "IntegrityError"

\* C11, amended: the store never holds two rows for an ordered pair; a caller
\* whose lookup found nothing and whose insert lost to the uniqueness
\* constraint either gets the stored row of the pair back without an error or
\* fails with IntegrityError; a call that returns always returns a stored row
\* of its pair.
C11_NoDuplicateRow ==
    /\ \A a \in Users, b \in Users :
           Cardinality(PairRows(friend_requests, a, b)) <= 1
    /\ \A p \in Procs :
           (procs[p].pc = "done" /\ procs[p].op = "send_friend_request") =>
               \/ procs[p].exc = "ValueError"
                     /\ procs[p].args.from_user = procs[p].args.to_user
               \/ procs[p].exc = "IntegrityError" /\ procs[p].note = "lost"
                     /\ procs[p].ret = <<>>
               \/ /\ procs[p].exc = None
                  /\ \E r \in PairRows(friend_requests, procs[p].args.from_user,
                                       procs[p].args.to_user) :
                         procs[p].ret = <<r.id>>

\* a caller that lost the insert has returned the row the other caller stored
C11_Witness ==
    \E p \in Procs :
        /\ procs[p].pc = "done"
        /\ procs[p].note = "lost"
        /\ procs[p].exc = None
        /\ procs[p].ret # <<>>


-----------------------------------------------------------------------------
(* message_services.py: send_message, calls that overlap with the removal   *)
(* of members.  The membership queries of lines 29 and 33 and the insert of *)
(* line 40 are three accesses to the store; only line 40 runs inside        *)
(* transaction.atomic().  A call's note keeps the members its last check    *)
(* read and whether the sender was a member when the insert ran.            *)

\* models.py line 60: chat.members.remove(user), by any other caller
RemoveMember(user) ==
    /\ user \in chat_members
    /\ chat_members' = chat_members \ {user}
    /\ UNCHANGED <<chat_creator, msgVars, friendVars, notifVars, profileVars,
                   procs, last>>

\* lines 28-32: the first membership query
SendCheck(p, sender, content) ==
    LET call == [IdleProc EXCEPT !.op = "send_message",
                     !.args = [sender |-> sender, content |-> content],
                     !.note = [checked |-> chat_members, at_create |-> None]]
    IN  /\ procs[p].pc = "idle"
        /\ procs' = [procs EXCEPT ![p] =
              IF IsMember(sender)
              THEN [call EXCEPT !.pc = "check_again"]
              ELSE [call EXCEPT !.pc = "done", !.exc = "PermissionError"]]
        /\ UNCHANGED <<chatVars, msgVars, friendVars, notifVars, profileVars, last>>

\* lines 33-36: the second membership query
SendCheckAgain(p) ==
    /\ procs[p].pc = "check_again"
    /\ procs' = [procs EXCEPT ![p] =
          IF IsMember(procs[p].args.sender)
          THEN [@ EXCEPT !.pc = "create", !.note.checked = chat_members]
          ELSE [@ EXCEPT !.pc = "done", !.exc = "PermissionError",
                         !.note.checked = chat_members]]
    /\ UNCHANGED <<chatVars, msgVars, friendVars, notifVars, profileVars, last>>

\* lines 38-50: the insert, the validation and the commit
SendCreate(p) ==
    LET sender == procs[p].args.sender
        c == strip(OrEmpty(procs[p].args.content))
        at_create == IF IsMember(sender) THEN "member" ELSE "not_member"
        exc == IF ~CreateKwargsOk(SendCreateKwargs) THEN "TypeError"
               ELSE IF ~MessageFullCleanOk(c) THEN "ValidationError"
               ELSE None
    IN  /\ procs[p].pc = "create"
        /\ exc = None => next_id <= MaxMsgs
        /\ IF exc = None
           THEN /\ messages' = messages @@ (next_id :> NewMessageRow(sender, c))
                /\ next_id' = next_id + 1
                /\ procs' = [procs EXCEPT ![p] =
                       [@ EXCEPT !.pc = "done", !.ret = <<next_id>>,
                                 !.note.at_create = at_create]]
           ELSE /\ UNCHANGED <<messages, next_id>>
                /\ procs' = [procs EXCEPT ![p] =
                       [@ EXCEPT !.pc = "done", !.exc = exc,
                                 !.note.at_create = at_create]]
        /\ UNCHANGED <<chatVars, before, friendVars, notifVars, profileVars, last>>

RemoveMemberStep == \E u \in Users : RemoveMember(u)
SendCheckStep == \E p \in Procs, u \in Users, c \in Contents : SendCheck(p, u, c)
SendCheckAgainStep == \E p \in Procs : SendCheckAgain(p)
SendCreateStep == \E p \in Procs : SendCreate(p)

ConcSendNext ==
    \/ RemoveMemberStep
    \/ SendCheckStep
    \/ SendCheckAgainStep
    \/ SendCreateStep
    \/ ProcReturnStep

ConcSendSpec == Init /\ [][ConcSendNext]_vars

\* a send_message call whose row creation (line 40) has run
CreateHasRun(p) ==
    /\ procs[p].op = "send_message"
    /\ procs[p].pc = "done"
    /\ procs[p].exc # "PermissionError"

-----------------------------------------------------------------------------
(* delete_message after a delete.  In Spec only delete_message removes a    *)
(* row and ids are handed out in order, so an id below next_id that is not  *)
(* stored is the id of a message a delete_message call returned True for.   *)

\* the id the last call was given belongs to a message deleted before it
DeletedBefore ==
    /\ last.args.ref.pk \in 1..(next_id - 1)
    /\ last.args.ref.pk \notin DOMAIN before

\* C20: once delete_message has returned true for a message, the message is
\* never stored again, and every later delete_message on its id returns
\* false (raising nothing and storing nothing).
C20_DeletedStaysDeleted ==
    (/\ last.op = "delete_message"
     /\ last.args.ref.kind = "id"
     /\ DeletedBefore) =>
        /\ last.exc = None
        /\ last.ret = <<FALSE>>
        /\ messages = before
        /\ last.args.ref.pk \notin DOMAIN messages


-----------------------------------------------------------------------------
(* user_services.py: update_profile, calls that overlap.  The call reads    *)
(* the row (line 36), changes and validates its own instance (lines 44-61)  *)
(* and writes it back (line 63); it opens no transaction and takes no lock, *)
(* so another call may read or write the row between the two accesses.      *)

\* the users and the data the overlapping calls are tried with
ProfileUsers == {"u1", "u2"}
OneKeyDatas == {d \in Datas : Cardinality(DOMAIN d) <= 1}

\* lines 36-61: get_profile, the setattr loop and full_clean
UpdLoad(p, user, data, allowed_fields) ==
    LET allowed == AllowedFields(allowed_fields)
        call == [IdleProc EXCEPT !.op = "update_profile",
                     !.args = [user |-> user, data |-> data,
                               allowed_fields |-> allowed_fields]]
        instance == InMemoryProfile(profiles[user], data, allowed)
    IN  /\ procs[p].pc = "idle"
        /\ procs' = [procs EXCEPT ![p] =
              IF GetProfileExc(user, TRUE) # None                 \* line 36
              THEN [call EXCEPT !.pc = "done", !.exc = GetProfileExc(user, TRUE)]
              ELSE IF AppliedKeys(data, allowed) = {}             \* lines 52-54
              THEN [call EXCEPT !.pc = "done", !.ret = <<user>>]
              ELSE IF ~ProfileFullCleanOk(instance)               \* lines 57-61
              THEN [call EXCEPT !.pc = "done", !.exc = "ValidationError"]
              ELSE [call EXCEPT !.pc = "save", !.note = instance]]
        /\ UNCHANGED <<chatVars, msgVars, friendVars, notifVars, profileVars, last>>

\* lines 63-64: save(update_fields=...) of the instance read at line 36
UpdSave(p) ==
    LET user == procs[p].args.user
        allowed == AllowedFields(procs[p].args.allowed_fields)
    IN  /\ procs[p].pc = "save"
        /\ profiles' = [profiles EXCEPT ![user] =
               SavedProfile(profiles[user], procs[p].note, allowed)]
        /\ procs' = [procs EXCEPT ![p] = [@ EXCEPT !.pc = "done", !.ret = <<user>>]]
        /\ UNCHANGED <<chatVars, msgVars, friendVars, notifVars, prof_before, last>>

ConcAdminAddProfileStep ==
    \E u \in ProfileUsers, a \in AgeValues : AdminAddProfile(u, a)
UpdLoadStep ==
    \E p \in Procs, u \in ProfileUsers, d \in OneKeyDatas, f \in AllowedFieldsArgs :
        UpdLoad(p, u, d, f)
UpdSaveStep == \E p \in Procs : UpdSave(p)

ConcProfileNext ==
    \/ ConcAdminAddProfileStep
    \/ UpdLoadStep
    \/ UpdSaveStep
    \/ ProcReturnStep

ConcProfileSpec == NoChatInit /\ [][ConcProfileNext]_vars

\* the call of p has saved and returned the profile, having set only `key`
SavedOnly(p, key) ==
    /\ procs[p].op = "update_profile"
    /\ procs[p].pc = "done"
    /\ procs[p].exc = None
    /\ AppliedKeys(procs[p].args.data,
                   AllowedFields(procs[p].args.allowed_fields)) = {key}

\* C21: when two update_profile calls for the same user overlap and change
\* disjoint allowed fields (one sets bio, the other sets age), then after
\* both have succeeded the stored profile carries both changes: neither call
\* writes back the value of the other's field that it read earlier.
C21_BothChangesStored ==
    \A p \in Procs : \A q \in Procs \ {p} :
        (/\ SavedOnly(p, "bio")
         /\ SavedOnly(q, "age")
         /\ procs[p].args.user = procs[q].args.user) =>
            /\ profiles[procs[p].args.user].bio = procs[p].args.data["bio"]
            /\ profiles[procs[p].args.user].age = procs[q].args.data["age"]

====
